---- MODULE Spec2Model ----
(***************************************************************************)
(* sensor_logger.py: a script that checks its configuration, connects to   *)
(* SQLite Cloud, sets up a temperature sensor and a PIR input, ensures two *)
(* tables, and then once per second reads both sensors and inserts one row *)
(* per sensor, until KeyboardInterrupt.                                    *)
(*                                                                         *)
(* The store is modelled as a DB-API connection: execute puts a statement  *)
(* into the connection's open transaction, commit makes the transaction    *)
(* durable.  Every call into the store or into a sensor driver may raise.  *)
(***************************************************************************)
EXTENDS Integers, Sequences, FiniteSets, TLC

\* ---------------------------------------------------------------- bounds
MaxTicks == 2
MaxInterrupts == 2
MaxEnsureCalls == 3

\* ------------------------------------------------------- program values
PIR_PIN == 23

None == "None"
EnvValues == {None, "", "set"}
Temperatures == {21}
MotionStates == {0, 1}
FailKinds == {"connection", "other"}
TableNames == {"motion", "temperature"}

\* One row written by an earlier run of the script (timestamp 0).
OldRow == [ts |-> 0, val |-> 0]
InitialStores ==
    { [tables |-> {}, temperature |-> <<>>, motion |-> <<>>],
      [tables |-> TableNames, temperature |-> <<>>, motion |-> <<>>],
      [tables |-> TableNames, temperature |-> <<OldRow>>, motion |-> <<OldRow>>] }

VARIABLES
    pc,                  \* position in the script
    API_KEY, DATABASE_URL, DB_NAME,   \* os.getenv results
    conn,                \* "none" | "open" | "closed"
    connectCalls,        \* number of sqlitecloud.connect calls made
    storeTables,         \* tables that durably exist in the store
    temperature,         \* durable rows of table temperature
    motion,              \* durable rows of table motion
    pendingTables,       \* CREATE TABLE statements executed, not committed
    pendingRows,         \* INSERT statements executed, not committed
    sensor,              \* W1ThermSensor() constructed
    gpioPins,            \* pins configured by GPIO.setup
    gpioCleaned,         \* GPIO.cleanup() has run
    temperature_celsius, motion_state, timestamp,   \* locals of the loop
    clock,               \* value datetime.now() would return
    printed,             \* messages written to the console
    exitCode,            \* "none" while running, else the exit status
    interrupts,          \* KeyboardInterrupts delivered so far
    propagating,         \* an exception is propagating through finally
    ensureCalls,         \* calls of create_tables_if_not_exists so far
    errors,              \* exceptions caught by an except Exception clause
    errorLogs,           \* messages those except clauses have printed
    tick                 \* what happened in the current loop iteration

vars == << pc, API_KEY, DATABASE_URL, DB_NAME, conn, connectCalls, storeTables,
           temperature, motion, pendingTables, pendingRows, sensor, gpioPins,
           gpioCleaned, temperature_celsius, motion_state, timestamp, clock,
           printed, exitCode, interrupts, propagating, ensureCalls, errors,
           errorLogs, tick >>

envVars    == << API_KEY, DATABASE_URL, DB_NAME >>
storeVars  == << storeTables, temperature, motion, pendingTables, pendingRows >>
deviceVars == << sensor, gpioPins, gpioCleaned >>
localVars  == << temperature_celsius, motion_state, timestamp >>
errorVars  == << errors, errorLogs >>

\* An except Exception clause that prints what it caught (lines 88-89,
\* 107-108, 126-127, 168-169).
CaughtAndPrinted ==
    /\ errors' = errors + 1
    /\ errorLogs' = errorLogs + 1

\* ------------------------------------------------------------- helpers

\* Python truthiness of an os.getenv result: None and "" are falsy.
Truthy(v) == v # None /\ v # ""

\* Mutant of ConfigOk: the check written as `is None`, so "" passes.
ConfigOk_NoneOnly == API_KEY # None /\ DATABASE_URL # None /\ DB_NAME # None

\* Line 50: `not API_KEY or not DATABASE_URL or not DB_NAME` is false.
ConfigOk == Truthy(API_KEY) /\ Truthy(DATABASE_URL) /\ Truthy(DB_NAME)

\* The rows of `rows` that belong to table `tbl`, in order, without the tag.
RECURSIVE RowsOf(_, _)
RowsOf(rows, tbl) ==
    IF rows = <<>> THEN <<>>
    ELSE LET r == Head(rows)
             rest == RowsOf(Tail(rows), tbl)
         IN IF r.tbl = tbl THEN <<[ts |-> r.ts, val |-> r.val]>> \o rest ELSE rest

\* A table the connection can see: durable, or created in its transaction.
Visible(tbl) == tbl \in storeTables \cup pendingTables

\* History of one loop iteration (not program state: used by the properties).
NoResult == [step |-> "none", kind |-> "none"]
Inserted == [step |-> "ok", kind |-> "none"]
Failed(step, kind) == [step |-> step, kind |-> kind]
NewTick == [t0 |-> Len(temperature), m0 |-> Len(motion),
            sensors |-> "none", it |-> NoResult, im |-> NoResult, intAt |-> "none"]

StartupPcs == {"check_config", "connect", "sensor_init", "gpio_setup",
               "ct_exec_motion", "ct_exec_temperature", "ct_commit"}
InsertPcs  == {"it_execute", "it_commit", "im_execute", "im_commit"}
LoopPcs    == {"read_temperature", "read_motion", "sleep"} \cup InsertPcs
TryPcs     == {"system_test"} \cup LoopPcs
FinallyPcs == {"gpio_cleanup", "conn_close"}
TeardownPcs == {"quit"} \cup FinallyPcs

\* ---------------------------------------------------------------- Init
Init ==
    /\ pc = "check_config"
    /\ API_KEY \in EnvValues
    /\ DATABASE_URL \in EnvValues
    /\ DB_NAME \in EnvValues
    /\ conn = "none"
    /\ connectCalls = 0
    /\ \E s \in InitialStores :
          /\ storeTables = s.tables
          /\ temperature = s.temperature
          /\ motion = s.motion
    /\ pendingTables = {}
    /\ pendingRows = <<>>
    /\ sensor = FALSE
    /\ gpioPins = {}
    /\ gpioCleaned = FALSE
    /\ temperature_celsius = None
    /\ motion_state = None
    /\ timestamp = None
    /\ clock = 1
    /\ printed = {}
    /\ exitCode = "none"
    /\ interrupts = 0
    /\ propagating = FALSE
    /\ ensureCalls = 0
    /\ errors = 0
    /\ errorLogs = 0
    /\ tick = [t0 |-> 0, m0 |-> 0, sensors |-> "none", it |-> NoResult,
               im |-> NoResult, intAt |-> "none"]

\* --------------------------------------------------------------- startup

\* Lines 50-51: the configuration is complete.
CheckConfigOk ==
    /\ pc = "check_config"
    /\ ConfigOk
    /\ pc' = "connect"
    /\ UNCHANGED << envVars, ensureCalls, errorVars, conn, connectCalls,
                    storeVars, deviceVars, localVars, clock, printed, exitCode,
                    interrupts, propagating, tick >>

\* Lines 50-51: raise ValueError, uncaught: traceback, exit status 1.
CheckConfigMissing ==
    /\ pc = "check_config"
    /\ ~ConfigOk
    /\ pc' = "exited"
    /\ exitCode' = "1"
    /\ printed' = printed \cup {"ValueError traceback"}
    /\ UNCHANGED << envVars, ensureCalls, errorVars, conn, connectCalls,
                    storeVars, deviceVars, localVars, clock, interrupts,
                    propagating, tick >>

\* Mutant of ConnectOk: create_tables_if_not_exists is called right after the
\* connection is opened, before the sensor and the GPIO pin are set up.
ConnectOk_ThenSchema ==
    /\ pc = "connect"
    /\ conn' = "open"
    /\ connectCalls' = connectCalls + 1
    /\ printed' = printed \cup {"Connected to SQLite Cloud"}
    /\ ensureCalls' = ensureCalls + 1
    /\ pc' = "ct_exec_motion"
    /\ UNCHANGED << envVars, errorVars, storeVars, deviceVars, localVars, clock,
                    exitCode, interrupts, propagating, tick >>

\* Lines 54-56: sqlitecloud.connect returns a connection.
ConnectOk ==
    /\ pc = "connect"
    /\ conn' = "open"
    /\ connectCalls' = connectCalls + 1
    /\ printed' = printed \cup {"Connected to SQLite Cloud"}
    /\ pc' = "sensor_init"
    /\ UNCHANGED << envVars, ensureCalls, errorVars, storeVars, deviceVars,
                    localVars, clock, exitCode, interrupts, propagating, tick >>

\* Lines 57-59: sqlitecloud.connect raises; the message is printed and exit()
\* is called without an argument, which is exit status 0.
ConnectFail ==
    /\ pc = "connect"
    /\ connectCalls' = connectCalls + 1
    /\ printed' = printed \cup {"Failed to connect to SQLite Cloud"}
    /\ pc' = "exited"
    /\ exitCode' = "0"
    /\ UNCHANGED << envVars, ensureCalls, errorVars, conn, storeVars,
                    deviceVars, localVars, clock, interrupts, propagating,
                    tick >>

\* Line 130: W1ThermSensor() finds the probe.
SensorInitOk ==
    /\ pc = "sensor_init"
    /\ sensor' = TRUE
    /\ pc' = "gpio_setup"
    /\ UNCHANGED << envVars, ensureCalls, errorVars, conn, connectCalls,
                    storeVars, gpioPins, gpioCleaned, localVars, clock,
                    printed, exitCode, interrupts, propagating, tick >>

\* Line 130: W1ThermSensor() raises, uncaught: traceback, exit status 1.
SensorInitFail ==
    /\ pc = "sensor_init"
    /\ pc' = "exited"
    /\ exitCode' = "1"
    /\ printed' = printed \cup {"sensor traceback"}
    /\ UNCHANGED << envVars, ensureCalls, errorVars, conn, connectCalls,
                    storeVars, deviceVars, localVars, clock, interrupts,
                    propagating, tick >>

\* Lines 133-138: GPIO.setmode and GPIO.setup(PIR_PIN, GPIO.IN), then the call
\* of create_tables_if_not_exists.
GpioSetupOk ==
    /\ pc = "gpio_setup"
    /\ gpioPins' = gpioPins \cup {PIR_PIN}
    /\ pc' = "ct_exec_motion"
    /\ ensureCalls' = ensureCalls + 1
    /\ UNCHANGED << envVars, errorVars, conn, connectCalls, storeVars, sensor,
                    gpioCleaned, localVars, clock, printed, exitCode,
                    interrupts, propagating, tick >>

\* Lines 133-135: the GPIO call raises, uncaught: traceback, exit status 1.
GpioSetupFail ==
    /\ pc = "gpio_setup"
    /\ pc' = "exited"
    /\ exitCode' = "1"
    /\ printed' = printed \cup {"gpio traceback"}
    /\ UNCHANGED << envVars, ensureCalls, errorVars, conn, connectCalls,
                    storeVars, deviceVars, localVars, clock, interrupts,
                    propagating, tick >>

\* ------------------------------------------------------------- the store

\* conn.commit() returns: the open transaction becomes durable.
CommitOk ==
    /\ storeTables' = storeTables \cup pendingTables
    /\ temperature' = temperature \o RowsOf(pendingRows, "temperature")
    /\ motion' = motion \o RowsOf(pendingRows, "motion")
    /\ pendingTables' = {}
    /\ pendingRows' = <<>>

\* conn.commit() raises: nothing becomes durable; the transaction either
\* stays open on the connection or is rolled back by the store.
CommitRaises ==
    /\ UNCHANGED << storeTables, temperature, motion >>
    /\ \/ UNCHANGED << pendingTables, pendingRows >>
       \/ pendingTables' = {} /\ pendingRows' = <<>>

\* conn.execute(INSERT INTO tbl (timestamp, col) VALUES (?, ?)) returns.
ExecuteInsert(tbl, ts, val) ==
    /\ Visible(tbl)
    /\ pendingRows' = Append(pendingRows, [tbl |-> tbl, ts |-> ts, val |-> val])
    /\ UNCHANGED << storeTables, temperature, motion, pendingTables >>

\* Mutant of ExecuteCreate: plain CREATE TABLE, which the store accepts only
\* while the table does not exist.
ExecuteCreate_NoIfNotExists(tbl) ==
    /\ ~Visible(tbl)
    /\ pendingTables' = pendingTables \cup {tbl}
    /\ UNCHANGED << storeTables, temperature, motion, pendingRows >>

\* conn.execute(CREATE TABLE IF NOT EXISTS tbl ...) returns.
ExecuteCreate(tbl) ==
    /\ pendingTables' = IF Visible(tbl) THEN pendingTables
                        ELSE pendingTables \cup {tbl}
    /\ UNCHANGED << storeTables, temperature, motion, pendingRows >>

\* ------------------------------------------- create_tables_if_not_exists

\* Line 84: the motion table statement is executed.
CreateMotionOk ==
    /\ pc = "ct_exec_motion"
    /\ ExecuteCreate("motion")
    /\ pc' = "ct_exec_temperature"
    /\ UNCHANGED << envVars, ensureCalls, errorVars, conn, connectCalls,
                    deviceVars, localVars, clock, printed, exitCode,
                    interrupts, propagating, tick >>

\* Line 85: the temperature table statement is executed.
CreateTemperatureOk ==
    /\ pc = "ct_exec_temperature"
    /\ ExecuteCreate("temperature")
    /\ pc' = "ct_commit"
    /\ UNCHANGED << envVars, ensureCalls, errorVars, conn, connectCalls,
                    deviceVars, localVars, clock, printed, exitCode,
                    interrupts, propagating, tick >>

\* Lines 84-85, 88-89: the store rejects a CREATE TABLE statement; the except
\* clause prints the failure and the function returns normally.
CreateRejected ==
    /\ pc \in {"ct_exec_motion", "ct_exec_temperature"}
    /\ printed' = printed \cup {"Failed to create tables"}
    /\ pc' = "system_test"
    /\ CaughtAndPrinted
    /\ UNCHANGED << envVars, ensureCalls, conn, connectCalls, storeVars,
                    deviceVars, localVars, clock, exitCode, interrupts,
                    propagating, tick >>

\* Lines 86-87: the commit returns.
CreateCommitOk ==
    /\ pc = "ct_commit"
    /\ CommitOk
    /\ printed' = printed \cup {"Tables are ready"}
    /\ pc' = "system_test"
    /\ UNCHANGED << envVars, ensureCalls, errorVars, conn, connectCalls,
                    deviceVars, localVars, clock, exitCode, interrupts,
                    propagating, tick >>

\* Lines 86, 88-89: the commit raises; printed, and the function returns.
CreateCommitFail ==
    /\ pc = "ct_commit"
    /\ CommitRaises
    /\ printed' = printed \cup {"Failed to create tables"}
    /\ pc' = "system_test"
    /\ CaughtAndPrinted
    /\ UNCHANGED << envVars, ensureCalls, conn, connectCalls, deviceVars,
                    localVars, clock, exitCode, interrupts, propagating, tick >>

\* Lines 138-143: after create_tables_if_not_exists returns, the try block is
\* entered, "System Test" is printed, two seconds pass, "Ready" is printed and
\* the first iteration of `while True` begins.
SystemTest ==
    /\ pc = "system_test"
    /\ printed' = printed \cup {"Ready"}
    /\ pc' = "read_temperature"
    /\ tick' = NewTick
    /\ UNCHANGED << envVars, ensureCalls, errorVars, conn, connectCalls,
                    storeVars, deviceVars, localVars, clock, exitCode,
                    interrupts, propagating >>

\* ------------------------------------------------------------- the loop

\* Lines 149-150: sensor.get_temperature() returns.
ReadTemperatureOk ==
    /\ pc = "read_temperature"
    /\ \E t \in Temperatures : temperature_celsius' = t
    /\ pc' = "read_motion"
    /\ UNCHANGED << envVars, ensureCalls, errorVars, conn, connectCalls,
                    storeVars, deviceVars, motion_state, timestamp, clock,
                    printed, exitCode, interrupts, propagating, tick >>

\* Mutant of ReadTemperatureFail: no except clause around the loop body, so
\* the exception leaves the loop through the finally block.
ReadTemperatureFail_Raises ==
    /\ pc = "read_temperature"
    /\ tick' = [tick EXCEPT !.sensors = "temperature_failed"]
    /\ propagating' = TRUE
    /\ pc' = "gpio_cleanup"
    /\ UNCHANGED << envVars, ensureCalls, errorVars, conn, connectCalls,
                    storeVars, deviceVars, localVars, clock, printed, exitCode,
                    interrupts >>

\* Lines 149, 168-169: sensor.get_temperature() raises; the except clause of
\* the loop body prints the error and control reaches time.sleep(1).
ReadTemperatureFail ==
    /\ pc = "read_temperature"
    /\ printed' = printed \cup {"Error"}
    /\ tick' = [tick EXCEPT !.sensors = "temperature_failed"]
    /\ pc' = "sleep"
    /\ CaughtAndPrinted
    /\ UNCHANGED << envVars, ensureCalls, conn, connectCalls, storeVars,
                    deviceVars, localVars, clock, exitCode, interrupts,
                    propagating >>

\* Lines 153-156: GPIO.input(PIR_PIN) returns, and the timestamp is taken.
ReadMotionOk ==
    /\ pc = "read_motion"
    /\ \E m \in MotionStates : motion_state' = m
    /\ timestamp' = clock
    /\ tick' = [tick EXCEPT !.sensors = "ok"]
    /\ pc' = "it_execute"
    /\ UNCHANGED << envVars, ensureCalls, errorVars, conn, connectCalls,
                    storeVars, deviceVars, temperature_celsius, clock, printed,
                    exitCode, interrupts, propagating >>

\* Mutant of ReadMotionFail: the failure is caught around the read alone, so
\* the inserts of lines 159-160 still run, with the values of the last tick.
ReadMotionFail_NoSkip ==
    /\ pc = "read_motion"
    /\ printed' = printed \cup {"Error"}
    /\ tick' = [tick EXCEPT !.sensors = "motion_failed"]
    /\ motion_state' = 0
    /\ timestamp' = clock
    /\ pc' = "it_execute"
    /\ CaughtAndPrinted
    /\ UNCHANGED << envVars, ensureCalls, conn, connectCalls, storeVars,
                    deviceVars, temperature_celsius, clock, exitCode,
                    interrupts, propagating >>

\* Lines 153, 168-169: GPIO.input raises; printed, then time.sleep(1).
ReadMotionFail ==
    /\ pc = "read_motion"
    /\ printed' = printed \cup {"Error"}
    /\ tick' = [tick EXCEPT !.sensors = "motion_failed"]
    /\ pc' = "sleep"
    /\ CaughtAndPrinted
    /\ UNCHANGED << envVars, ensureCalls, conn, connectCalls, storeVars,
                    deviceVars, localVars, clock, exitCode, interrupts,
                    propagating >>

\* ------------------------------------------------------ insert_temperature

\* Line 123: the INSERT INTO temperature statement is executed.
InsertTemperatureExecuteOk ==
    /\ pc = "it_execute"
    /\ ExecuteInsert("temperature", timestamp, temperature_celsius)
    /\ pc' = "it_commit"
    /\ UNCHANGED << envVars, ensureCalls, errorVars, conn, connectCalls,
                    deviceVars, localVars, clock, printed, exitCode,
                    interrupts, propagating, tick >>

\* Mutant of InsertTemperatureExecuteFail: the except clause is `pass`.
InsertTemperatureExecuteFail_Silent ==
    /\ pc = "it_execute"
    /\ \E k \in FailKinds : tick' = [tick EXCEPT !.it = Failed("execute", k)]
    /\ errors' = errors + 1
    /\ pc' = "im_execute"
    /\ UNCHANGED << envVars, ensureCalls, errorLogs, conn, connectCalls,
                    storeVars, deviceVars, localVars, clock, printed, exitCode,
                    interrupts, propagating >>

\* Lines 123, 126-127: conn.execute raises; the except clause prints the error
\* and insert_temperature returns, so line 160 calls insert_motion next.
InsertTemperatureExecuteFail ==
    /\ pc = "it_execute"
    /\ \E k \in FailKinds : tick' = [tick EXCEPT !.it = Failed("execute", k)]
    /\ printed' = printed \cup {"error inserting into temperature table"}
    /\ pc' = "im_execute"
    /\ CaughtAndPrinted
    /\ UNCHANGED << envVars, ensureCalls, conn, connectCalls, storeVars,
                    deviceVars, localVars, clock, exitCode, interrupts,
                    propagating >>

\* Lines 124-125: conn.commit returns and the record is reported.
InsertTemperatureCommitOk ==
    /\ pc = "it_commit"
    /\ CommitOk
    /\ tick' = [tick EXCEPT !.it = Inserted]
    /\ printed' = printed \cup {"Record inserted into temperature table"}
    /\ pc' = "im_execute"
    /\ UNCHANGED << envVars, ensureCalls, errorVars, conn, connectCalls,
                    deviceVars, localVars, clock, exitCode, interrupts,
                    propagating >>

\* Lines 124, 126-127: conn.commit raises; printed, and the function returns.
InsertTemperatureCommitFail ==
    /\ pc = "it_commit"
    /\ CommitRaises
    /\ \E k \in FailKinds : tick' = [tick EXCEPT !.it = Failed("commit", k)]
    /\ printed' = printed \cup {"error inserting into temperature table"}
    /\ pc' = "im_execute"
    /\ CaughtAndPrinted
    /\ UNCHANGED << envVars, ensureCalls, conn, connectCalls, deviceVars,
                    localVars, clock, exitCode, interrupts, propagating >>

\* ----------------------------------------------------------- insert_motion

\* Lines 163-166: the motion status printed after insert_motion returns.
MotionStatus == IF motion_state = 1 THEN "Motion detected!" ELSE "No motion"

\* Line 104: the INSERT INTO motion statement is executed.
InsertMotionExecuteOk ==
    /\ pc = "im_execute"
    /\ ExecuteInsert("motion", timestamp, motion_state)
    /\ pc' = "im_commit"
    /\ UNCHANGED << envVars, ensureCalls, errorVars, conn, connectCalls,
                    deviceVars, localVars, clock, printed, exitCode,
                    interrupts, propagating, tick >>

\* Mutant of InsertMotionExecuteFail: the except clause opens a new connection
\* and leaves the old one open.
InsertMotionExecuteFail_Reconnects ==
    /\ pc = "im_execute"
    /\ \E k \in FailKinds : tick' = [tick EXCEPT !.im = Failed("execute", k)]
    /\ printed' = printed \cup {"error inserting into motion table", MotionStatus}
    /\ connectCalls' = connectCalls + 1
    /\ conn' = "open"
    /\ pc' = "sleep"
    /\ CaughtAndPrinted
    /\ UNCHANGED << envVars, ensureCalls, storeVars, deviceVars, localVars, clock,
                    exitCode, interrupts, propagating >>

\* Lines 104, 107-108, 163-166, 171: conn.execute raises; the except clause
\* prints the error, insert_motion returns, the motion status is printed.
InsertMotionExecuteFail ==
    /\ pc = "im_execute"
    /\ \E k \in FailKinds : tick' = [tick EXCEPT !.im = Failed("execute", k)]
    /\ printed' = printed \cup {"error inserting into motion table", MotionStatus}
    /\ pc' = "sleep"
    /\ CaughtAndPrinted
    /\ UNCHANGED << envVars, ensureCalls, conn, connectCalls, storeVars,
                    deviceVars, localVars, clock, exitCode, interrupts,
                    propagating >>

\* Lines 105-106, 163-166: conn.commit returns and the record is reported.
InsertMotionCommitOk ==
    /\ pc = "im_commit"
    /\ CommitOk
    /\ tick' = [tick EXCEPT !.im = Inserted]
    /\ printed' = printed \cup {"Record inserted into motion table", MotionStatus}
    /\ pc' = "sleep"
    /\ UNCHANGED << envVars, ensureCalls, errorVars, conn, connectCalls,
                    deviceVars, localVars, clock, exitCode, interrupts,
                    propagating >>

\* Mutant of InsertMotionCommitFail: the except clause commits once more, and
\* that commit goes through, while the insert is still reported as failed.
InsertMotionCommitFail_RetryCommits ==
    /\ pc = "im_commit"
    /\ CommitOk
    /\ \E k \in FailKinds : tick' = [tick EXCEPT !.im = Failed("commit", k)]
    /\ printed' = printed \cup {"error inserting into motion table", MotionStatus}
    /\ pc' = "sleep"
    /\ CaughtAndPrinted
    /\ UNCHANGED << envVars, ensureCalls, conn, connectCalls, deviceVars,
                    localVars, clock, exitCode, interrupts, propagating >>

\* Lines 105, 107-108, 163-166: conn.commit raises; printed, function returns.
InsertMotionCommitFail ==
    /\ pc = "im_commit"
    /\ CommitRaises
    /\ \E k \in FailKinds : tick' = [tick EXCEPT !.im = Failed("commit", k)]
    /\ printed' = printed \cup {"error inserting into motion table", MotionStatus}
    /\ pc' = "sleep"
    /\ CaughtAndPrinted
    /\ UNCHANGED << envVars, ensureCalls, conn, connectCalls, deviceVars,
                    localVars, clock, exitCode, interrupts, propagating >>

\* Line 171 and back to line 146: one second passes, the next iteration begins.
Sleep ==
    /\ pc = "sleep"
    /\ clock < MaxTicks
    /\ clock' = clock + 1
    /\ tick' = NewTick
    /\ pc' = "read_temperature"
    /\ UNCHANGED << envVars, ensureCalls, errorVars, conn, connectCalls,
                    storeVars, deviceVars, localVars, printed, exitCode,
                    interrupts, propagating >>

\* ------------------------------------------------- KeyboardInterrupt, exit

\* CTRL+C before line 140: no handler is active (the except clauses of lines
\* 57 and 88 catch Exception only), the script dies with a traceback.
InterruptStartup ==
    /\ pc \in StartupPcs
    /\ interrupts < MaxInterrupts
    /\ interrupts' = interrupts + 1
    /\ printed' = printed \cup {"KeyboardInterrupt traceback"}
    /\ pc' = "exited"
    /\ exitCode' = "130"
    /\ UNCHANGED << envVars, ensureCalls, errorVars, conn, connectCalls,
                    storeVars, deviceVars, localVars, clock, propagating,
                    tick >>

\* CTRL+C inside the try block of lines 140-171: KeyboardInterrupt is not an
\* Exception, so no inner except clause catches it; line 173 does.
InterruptTry ==
    /\ pc \in TryPcs
    /\ interrupts < MaxInterrupts
    /\ interrupts' = interrupts + 1
    /\ tick' = [tick EXCEPT !.intAt = pc]
    /\ pc' = "quit"
    /\ UNCHANGED << envVars, ensureCalls, errorVars, conn, connectCalls,
                    storeVars, deviceVars, localVars, clock, printed, exitCode,
                    propagating >>

\* Mutant of Quit: the except clause closes the connection itself, and the
\* finally block then runs as before.
Quit_ClosesConnection ==
    /\ pc = "quit"
    /\ printed' = printed \cup {"Quit"}
    /\ conn' = "closed"
    /\ pendingTables' = {}
    /\ pendingRows' = <<>>
    /\ pc' = "gpio_cleanup"
    /\ UNCHANGED << envVars, ensureCalls, errorVars, connectCalls, storeTables,
                    temperature, motion, deviceVars, localVars, clock, exitCode,
                    interrupts, propagating, tick >>

\* Mutant of Quit: the except clause ends the script itself (os._exit(0)),
\* so the finally block never runs.
Quit_ExitsAtOnce ==
    /\ pc = "quit"
    /\ printed' = printed \cup {"Quit"}
    /\ pc' = "exited"
    /\ exitCode' = "0"
    /\ UNCHANGED << envVars, ensureCalls, errorVars, conn, connectCalls,
                    storeVars, deviceVars, localVars, clock, interrupts,
                    propagating, tick >>

\* Line 174: "Quit" is printed.
Quit ==
    /\ pc = "quit"
    /\ printed' = printed \cup {"Quit"}
    /\ pc' = "gpio_cleanup"
    /\ UNCHANGED << envVars, ensureCalls, errorVars, conn, connectCalls,
                    storeVars, deviceVars, localVars, clock, exitCode,
                    interrupts, propagating, tick >>

\* CTRL+C inside the except clause of line 173: the finally block still runs,
\* and the new KeyboardInterrupt propagates after it.
InterruptQuit ==
    /\ pc = "quit"
    /\ interrupts < MaxInterrupts
    /\ interrupts' = interrupts + 1
    /\ propagating' = TRUE
    /\ pc' = "gpio_cleanup"
    /\ UNCHANGED << envVars, ensureCalls, errorVars, conn, connectCalls,
                    storeVars, deviceVars, localVars, clock, printed, exitCode,
                    tick >>

\* Line 176: GPIO.cleanup().
GpioCleanup ==
    /\ pc = "gpio_cleanup"
    /\ gpioCleaned' = TRUE
    /\ gpioPins' = {}
    /\ pc' = "conn_close"
    /\ UNCHANGED << envVars, ensureCalls, errorVars, conn, connectCalls,
                    storeVars, sensor, localVars, clock, printed, exitCode,
                    interrupts, propagating, tick >>

\* Lines 177-178: conn.close() discards the open transaction; the closing
\* message is printed and the script ends (status 0 unless an interrupt is
\* still propagating).
ConnClose ==
    /\ pc = "conn_close"
    /\ conn' = "closed"
    /\ pendingTables' = {}
    /\ pendingRows' = <<>>
    /\ printed' = printed \cup {"Cleaned up GPIO and closed database connection."}
    /\ pc' = "exited"
    /\ exitCode' = IF propagating THEN "130" ELSE "0"
    /\ UNCHANGED << envVars, ensureCalls, errorVars, connectCalls, storeTables,
                    temperature, motion, deviceVars, localVars, clock,
                    interrupts, propagating, tick >>

\* CTRL+C inside the finally block of lines 175-178: the rest of the block is
\* skipped and the script dies with a traceback.
InterruptFinally ==
    /\ pc \in FinallyPcs
    /\ interrupts < MaxInterrupts
    /\ interrupts' = interrupts + 1
    /\ printed' = printed \cup {"KeyboardInterrupt traceback"}
    /\ pc' = "exited"
    /\ exitCode' = "130"
    /\ UNCHANGED << envVars, ensureCalls, errorVars, conn, connectCalls,
                    storeVars, deviceVars, localVars, clock, propagating,
                    tick >>

\* ------------------------------------------------------------------ Next
Next ==
    \/ CheckConfigOk
    \/ CheckConfigMissing
    \/ ConnectOk
    \/ ConnectFail
    \/ SensorInitOk
    \/ SensorInitFail
    \/ GpioSetupOk
    \/ GpioSetupFail
    \/ CreateMotionOk
    \/ CreateTemperatureOk
    \/ CreateRejected
    \/ CreateCommitOk
    \/ CreateCommitFail
    \/ SystemTest
    \/ ReadTemperatureOk
    \/ ReadTemperatureFail
    \/ ReadMotionOk
    \/ ReadMotionFail
    \/ InsertTemperatureExecuteOk
    \/ InsertTemperatureExecuteFail
    \/ InsertTemperatureCommitOk
    \/ InsertTemperatureCommitFail
    \/ InsertMotionExecuteOk
    \/ InsertMotionExecuteFail
    \/ InsertMotionCommitOk
    \/ InsertMotionCommitFail
    \/ Sleep
    \/ InterruptStartup
    \/ InterruptTry
    \/ Quit
    \/ InterruptQuit
    \/ GpioCleanup
    \/ ConnClose
    \/ InterruptFinally

Spec == Init /\ [][Next]_vars

\* ------------------------------------- create_tables_if_not_exists, twice
\* The function applied to a store twice in succession on one connection: the
\* state is the one line 138 finds (connection open, handles acquired), with
\* any subset of the tables already there, with or without an earlier row.
CreatePcs == {"ct_exec_motion", "ct_exec_temperature", "ct_commit"}

SchemaStores ==
    { [tables |-> t, temperature |-> r, motion |-> m] :
        t \in SUBSET TableNames, r \in {<<>>, <<OldRow>>}, m \in {<<>>, <<OldRow>>} }

InitSchema ==
    /\ pc = "ct_exec_motion"
    /\ API_KEY = "set" /\ DATABASE_URL = "set" /\ DB_NAME = "set"
    /\ conn = "open"
    /\ connectCalls = 1
    /\ \E s \in SchemaStores :
          /\ s.temperature # <<>> => "temperature" \in s.tables
          /\ s.motion # <<>> => "motion" \in s.tables
          /\ storeTables = s.tables
          /\ temperature = s.temperature
          /\ motion = s.motion
    /\ pendingTables = {}
    /\ pendingRows = <<>>
    /\ sensor = TRUE
    /\ gpioPins = {PIR_PIN}
    /\ gpioCleaned = FALSE
    /\ temperature_celsius = None
    /\ motion_state = None
    /\ timestamp = None
    /\ clock = 1
    /\ printed = {"Connected to SQLite Cloud"}
    /\ exitCode = "none"
    /\ interrupts = 0
    /\ propagating = FALSE
    /\ ensureCalls = 1
    /\ errors = 0
    /\ errorLogs = 0
    /\ tick = [t0 |-> 0, m0 |-> 0, sensors |-> "none", it |-> NoResult,
               im |-> NoResult, intAt |-> "none"]

\* Line 138 once more: create_tables_if_not_exists is called again after it
\* has returned.
EnsureAgain ==
    /\ pc = "system_test"
    /\ ensureCalls < MaxEnsureCalls
    /\ ensureCalls' = ensureCalls + 1
    /\ pc' = "ct_exec_motion"
    /\ UNCHANGED << envVars, errorVars, conn, connectCalls, storeVars, deviceVars,
                    localVars, clock, printed, exitCode, interrupts,
                    propagating, tick >>

NextSchema ==
    \/ CreateMotionOk
    \/ CreateTemperatureOk
    \/ CreateRejected
    \/ CreateCommitOk
    \/ CreateCommitFail
    \/ EnsureAgain

SpecSchema == InitSchema /\ [][NextSchema]_vars

\* The interpreter keeps running the script: a statement of the except clause
\* or of the finally block that can run does run.
FairSpec == Spec /\ WF_vars(Quit) /\ WF_vars(GpioCleanup) /\ WF_vars(ConnClose)

TypeOK ==
    /\ pc \in StartupPcs \cup TryPcs \cup TeardownPcs \cup {"exited"}
    /\ conn \in {"none", "open", "closed"}
    /\ connectCalls \in 0..1
    /\ storeTables \subseteq TableNames
    /\ pendingTables \subseteq TableNames
    /\ exitCode \in {"none", "0", "1", "130"}
    /\ interrupts \in 0..MaxInterrupts
    /\ clock \in 1..MaxTicks

\* ------------------------------------------------- vocabulary of the claims

SensorFailures == {"temperature_failed", "motion_failed"}

\* The loop body of the current iteration has run to time.sleep(1).
TickOver == pc = "sleep"

\* Rows that became durable since the current iteration began.
TemperatureAppended == Len(temperature) - tick.t0
MotionAppended == Len(motion) - tick.m0

\* Calls of sqlitecloud.connect beyond the one made at startup.
Reconnections == IF connectCalls > 0 THEN connectCalls - 1 ELSE 0

HasRow(rows, ts) == \E i \in 1..Len(rows) : rows[i].ts = ts
Uncommitted(ts) == \E i \in 1..Len(pendingRows) : pendingRows[i].ts = ts

AnyConfigMissing == \E v \in {API_KEY, DATABASE_URL, DB_NAME} : v \in {None, ""}

StartupErrors == printed \cap {"ValueError traceback",
                               "Failed to connect to SQLite Cloud",
                               "Failed to create tables"}
Sampling == pc \in LoopPcs

\* ------------------------------------------------------------------ C1
\* C1: in every tick in which both sensor reads and both inserts succeed,
\* exactly one row is appended to temperature and exactly one to motion, and
\* the two rows carry the same timestamp.  (Stated for runs whose startup
\* reported no error, so that a violation does not rest on one.)
C1_SuccessfulTickAppendsOnePair ==
    (/\ TickOver /\ StartupErrors = {}
     /\ tick.sensors = "ok" /\ tick.it = Inserted /\ tick.im = Inserted)
    => /\ TemperatureAppended = 1
       /\ MotionAppended = 1
       /\ temperature[Len(temperature)].ts = motion[Len(motion)].ts

\* ------------------------------------------------------------------ C2
\* C2: in a tick in which a sensor read raises, no row is appended to either
\* table, and the loop goes on to the next tick (only an interrupt leads
\* anywhere else).
C2_SensorFailureSkipsTick ==
    [][ tick.sensors \in SensorFailures
        => /\ TemperatureAppended = 0 /\ MotionAppended = 0
           /\ temperature' = temperature /\ motion' = motion
           /\ ~Uncommitted(clock)
           /\ pc # "sleep" => interrupts > 0
           /\ (pc = "sleep" /\ interrupts' = interrupts)
                 => (pc' = "read_temperature" /\ clock' = clock + 1) ]_vars

C2_Witness ==
    /\ pc = "read_temperature"
    /\ clock = 2
    /\ "Error" \in printed
    /\ interrupts = 0

\* ------------------------------------------------------------------ C3
\* C3: when an insert of a tick fails with a lost connection and the store
\* answers again on the next attempt, the loop has made exactly one
\* reconnection and the failed row is persisted.  (Stated for runs whose
\* startup reported no error.)
C3_ReconnectOnceAndPersist ==
    (/\ TickOver /\ StartupErrors = {}
     /\ tick.it.kind = "connection" /\ tick.im = Inserted)
    => /\ Reconnections = 1
       /\ HasRow(temperature, timestamp)
       /\ HasRow(motion, timestamp)

C5_OnlyInterruptEndsLoop ==
    [][ (pc \in LoopPcs /\ pc' \notin LoopPcs)
        => (interrupts' = interrupts + 1 /\ pc' = "quit") ]_vars

C5_Witness ==
    /\ TickOver
    /\ clock = 2
    /\ tick.im.step = "commit"
    /\ tick.it.step = "execute"
    /\ "Error" \in printed
    /\ interrupts = 0

\* ------------------------------------------------------------------ C6
\* C6: startup has one outcome: no run reports a startup error and also
\* samples, and at most one startup error is reported.
C6_StartupHasOneOutcome ==
    /\ ~(StartupErrors # {} /\ Sampling)
    /\ Cardinality(StartupErrors) <= 1

\* ------------------------------------------------------------------ C7
\* C7: if API_KEY, DATABASE_URL or DB_NAME is missing or empty, the script
\* ends with a fatal error before the connection is opened and before any
\* sensor or GPIO handle is acquired.
C7_MissingConfigIsFatalFirst ==
    AnyConfigMissing
    => /\ pc \in {"check_config", "exited"}
       /\ connectCalls = 0 /\ conn = "none"
       /\ ~sensor /\ gpioPins = {}
       /\ pc = "exited" => exitCode \notin {"none", "0"}
       /\ (pc = "exited" /\ interrupts = 0)
             => (exitCode = "1" /\ "ValueError traceback" \in printed)

C7_Witness ==
    /\ pc = "exited"
    /\ interrupts = 0
    /\ DB_NAME = ""
    /\ Truthy(API_KEY) /\ Truthy(DATABASE_URL)

\* ------------------------------------------------------------------ C8
\* C8: if the initial connection fails, the script prints a diagnostic and
\* exits with a non-zero status, without sensor handles and without sampling.
C8_ConnectFailureExitsNonZero ==
    (pc = "exited" /\ connectCalls = 1 /\ conn = "none" /\ interrupts = 0)
    => /\ "Failed to connect to SQLite Cloud" \in printed
       /\ exitCode \notin {"none", "0"}
       /\ ~sensor /\ gpioPins = {}

\* ------------------------------------------------------------------ C9
\* C9: if the store rejects a table-creation statement during startup, the
\* script terminates and the sampling loop is never entered.
C9_SchemaFailureIsFatal ==
    "Failed to create tables" \in printed => ~Sampling

\* ------------------------------------------------------------------ C10
\* C10: an interrupt that arrives between sampling and the end of persistence
\* starts teardown only with the tick's insert sequence finished or abandoned
\* as a whole: no row of the tick executed but uncommitted, and not one row of
\* the pair durable without the other.  (Stated for runs whose startup
\* reported no error and whose inserts raised nothing.)
C10_InterruptLeavesNoPartialTick ==
    (/\ pc \in TeardownPcs
     /\ StartupErrors = {}
     /\ tick.intAt \in InsertPcs
     /\ tick.it.step \in {"none", "ok"}
     /\ tick.im.step \in {"none", "ok"})
    => /\ ~Uncommitted(timestamp)
       /\ HasRow(temperature, timestamp) <=> HasRow(motion, timestamp)

\* ------------------------------------------------------------------ C11
\* C11: wherever in a tick the interrupt arrives (sensor read, insert, cadence
\* wait), the script goes on to run GPIO.cleanup(), close the connection and
\* exit with status 0 (unless a further interrupt arrives during teardown).
CleanExit ==
    /\ pc = "exited"
    /\ gpioCleaned /\ gpioPins = {}
    /\ conn = "closed"
    /\ exitCode = "0"

C11_InterruptLeadsToCleanExit ==
    (pc = "quit" /\ tick.intAt \in LoopPcs) ~> (CleanExit \/ interrupts > 1)

C11_Witness ==
    /\ CleanExit
    /\ interrupts = 1
    /\ tick.intAt = "im_commit"
    /\ clock = 2

\* ------------------------------------------------------------------ C12
\* C12: every error caught inside a tick or in a store operation (sensor read,
\* temperature insert, motion insert, table creation) is printed: in every
\* reachable state the printed error messages are at least as many as the
\* errors caught.
C12_EveryErrorIsLogged == errorLogs >= errors

C12_Witness ==
    /\ errors = 4
    /\ {"Failed to create tables", "Error",
        "error inserting into temperature table",
        "error inserting into motion table"} \subseteq printed

\* ------------------------------------------------------------------ C13
\* C13: create_tables_if_not_exists run twice in succession on one store: no
\* call alters the rows of either table, and once a call has succeeded, the
\* next call finds exactly the two tables, every statement of it is accepted
\* by the store (no error is forced), and the two tables are what it leaves.
StatementAccepted ==
    /\ pc = "ct_exec_motion" => ENABLED CreateMotionOk
    /\ pc = "ct_exec_temperature" => ENABLED CreateTemperatureOk
    /\ pc = "ct_commit" => ENABLED CreateCommitOk

EnsureStep ==
    pc \in CreatePcs
    => /\ temperature' = temperature /\ motion' = motion
       /\ (ensureCalls >= 2 /\ "Tables are ready" \in printed)
             => /\ storeTables = TableNames
                /\ storeTables' = TableNames
                /\ pendingTables' = {}
                /\ StatementAccepted

C13_SchemaEnsureIdempotent == [][EnsureStep]_vars

C13_Witness ==
    /\ pc = "system_test"
    /\ ensureCalls = 2
    /\ "Failed to create tables" \notin printed
    /\ storeTables = TableNames
    /\ temperature = <<OldRow>> /\ motion = <<>>

\* ------------------------------------------------------------------ C14
\* C14: if an insert of a tick fails for a reason other than connection loss,
\* no row of that tick is appended to either table, the error is printed, and
\* no reconnection is made.  (Stated for runs whose startup reported no error.)
C14_OtherFailureDropsWholeTick ==
    (/\ TickOver /\ StartupErrors = {}
     /\ tick.it.kind = "other" \/ tick.im.kind = "other")
    => /\ ~HasRow(temperature, timestamp)
       /\ ~HasRow(motion, timestamp)
       /\ errorLogs > 0
       /\ Reconnections = 0

\* ------------------------------------------------------------------ C15
\* C15: at every tick boundary, a timestamp has a row in temperature if and
\* only if it has a row in motion.  (Stated for runs whose startup reported no
\* error.)
C15_PairedRecording ==
    (TickOver /\ StartupErrors = {})
    => /\ \A i \in 1..Len(temperature) : HasRow(motion, temperature[i].ts)
       /\ \A i \in 1..Len(motion) : HasRow(temperature, motion[i].ts)

\* ------------------------------------------------------------------ C16
\* C16 as stated: the schema is ensured before any sensor or GPIO handle is
\* acquired.
SchemaEnsured == ensureCalls > 0 /\ pc \notin CreatePcs

C16_SchemaBeforeHandles ==
    (sensor \/ gpioPins # {}) => SchemaEnsured

\* C16 as amended: configuration check, then connection, then the sensor handle
\* and the GPIO pin, then create_tables_if_not_exists, then the loop.
C16_StartupOrder ==
    /\ connectCalls > 0 => ~AnyConfigMissing
    /\ sensor => (connectCalls = 1 /\ conn # "none")
    /\ gpioPins # {} => sensor
    /\ ensureCalls > 0 => (sensor /\ (gpioPins = {PIR_PIN} \/ gpioCleaned))
    /\ pc \in TryPcs => ensureCalls = 1

C16_Witness ==
    /\ pc = "read_temperature"
    /\ ensureCalls = 1
    /\ sensor /\ gpioPins = {PIR_PIN}
    /\ conn = "open"

\* ------------------------------------------------------------------ C17
\* C17: there is at most one connection: its handle is unopened, open or
\* closed, sqlitecloud.connect has returned a connection at most once, and no
\* connect call is made while a connection is open.
OneConnectionStep ==
    /\ conn \in {"none", "open", "closed"}
    /\ conn # "none" => connectCalls = 1
    /\ connectCalls' > connectCalls => conn # "open"

C17_AtMostOneConnection == [][OneConnectionStep]_vars

C17_Witness ==
    /\ TickOver
    /\ clock = 2
    /\ conn = "open"
    /\ tick.it.kind = "connection"
    /\ tick.im.kind = "connection"

\* ------------------------------------------------------------------ C18
\* C18: an insert call that reports a failure leaves no row of its own in its
\* table, also after later commits on the connection; a call that succeeds
\* leaves exactly one.  (Stated for runs whose startup reported no error.)
OwnRows(rows) == Cardinality({i \in 1..Len(rows) : rows[i].ts = timestamp})

C18_InsertAllOrNothing ==
    (pc \in LoopPcs /\ tick.sensors = "ok" /\ StartupErrors = {})
    => /\ tick.it.step \in {"execute", "commit"} => OwnRows(temperature) = 0
       /\ tick.im.step \in {"execute", "commit"} => OwnRows(motion) = 0
       /\ tick.it = Inserted => OwnRows(temperature) = 1
       /\ tick.im = Inserted => OwnRows(motion) = 1

\* ------------------------------------------------------------------ C19
\* C19: a run that has opened the connection has closed it, and released the
\* GPIO pins, when the process ends.  (Stated for runs without an interrupt.)
C19_OpenedConnectionIsClosed ==
    (pc = "exited" /\ conn # "none" /\ interrupts = 0)
    => (conn = "closed" /\ gpioPins = {})

\* ------------------------------------------------------------------ C20
\* C20: once conn.close() has run the script has ended: no statement, so no
\* execute, no commit and no second close, runs on the closed connection.
NoUseAfterCloseStep ==
    /\ conn' = "closed" => pc' = "exited"
    /\ conn = "closed" => UNCHANGED << conn, storeVars >>

C20_NoUseAfterClose == [][NoUseAfterCloseStep]_vars

C20_Witness ==
    /\ pc = "exited"
    /\ conn = "closed"
    /\ clock = 2
    /\ Len(temperature) > 1

====
